---- MODULE Spec2Model ----
(***************************************************************************)
(* GooglePagespeed (modules/aggregation/custom/google_pagespeed.py):       *)
(* run() walks the configuration blocks; _process_configuration validates  *)
(* one block, builds its request list, runs _process_requests over it and  *)
(* once more over the failed requests, and hands the records to the sink;  *)
(* _process_requests starts one ResultThread per request of a chunk of    *)
(* MAX_PARALLEL_REQUESTS, joins them in order and sleeps between chunks.  *)
(*                                                                         *)
(* Optional values (Python None) are sequences: <<>> is None, <<x>> is x.  *)
(***************************************************************************)
EXTENDS Integers, Sequences, FiniteSets, TLC

MAX_PARALLEL_REQUESTS == 10
SECONDS_BETWEEN_REQUESTS == 3

\* Bounds of the inputs.
MaxUrls == 2      \* longest url list of a cluster in the exhaustive inputs
MaxBlocks == 2    \* most configuration blocks of one run
MaxChunks == 2    \* most full chunks of the first pass in the long inputs

None == <<>>
Some(x) == <<x>>

Min(a, b) == IF a < b THEN a ELSE b

STRATEGIES_ALLOWED == {"desktop", "mobile", "both"}

\* str.upper on the allowed strategy names.
Upper(s) ==
    CASE s = "desktop" -> "DESKTOP"
      [] s = "mobile" -> "MOBILE"
      [] s = "both" -> "BOTH"
      [] OTHER -> s

(***************************************************************************)
(* Inputs.  A url-list item is a string; NonStr stands for an item that    *)
(* is not a str, BadUrl for a string that Validator.validate_url rejects.  *)
(* The Metrics Source answers "a" and "b" either way on every call; "up"   *)
(* always answers, "flaky" answers from the retry pass on; the probe url   *)
(* gets every answer the Metrics Source is modelled to give.               *)
(***************************************************************************)
NonStr == "<not a str>"
BadUrl == "not a url"
AnyUrls == {"a", "b"}
SteadyUrls == {"up", "flaky"}
ProbeUrl == "probe"
ValidUrls == AnyUrls \cup SteadyUrls \cup {ProbeUrl}

is_str(x) == x # NonStr

\* utilities.validator.Validator.validate_url
validate_url(url) == url \in ValidUrls

ModuleApiKey == "K0"

(***************************************************************************)
(* A configuration block: cluster is the dict's items in insertion order  *)
(* (<<name, urls>> pairs with distinct names), the other keys are         *)
(* optional strings.                                                       *)
(***************************************************************************)
Block(cluster, strategy, apiKey, tablename, logTablename) ==
    [cluster |-> cluster, strategy |-> strategy, apiKey |-> apiKey,
     tablename |-> tablename, logTablename |-> logTablename]

RECURSIVE Copies(_, _)
Copies(x, n) == IF n = 0 THEN <<>> ELSE <<x>> \o Copies(x, n - 1)

RECURSIVE Concat(_)
Concat(ss) == IF ss = <<>> THEN <<>> ELSE Head(ss) \o Concat(Tail(ss))

SeqsUpTo(S, n) == UNION {[1..k -> S] : k \in 0..n}

(***************************************************************************)
(* The Metrics Source and the worker (_process_pagespeed_api).             *)
(***************************************************************************)
HttpError(text) == [type |-> "HttpError", text |-> text]
OtherError(text) == [type |-> "ConnectionError", text |-> text]

QuotaText == <<"Status", "-", "Code", ":", " ", "4", "2", "9", " ", "rate", " ", "limited">>
ResetText == <<"connection", " ", "reset">>
CodeText == <<"STATUS", "_", "CODE", "5", "0", "3">>

\* The exceptions a call for the probe url can end with.
Failures ==
    {HttpError(QuotaText), HttpError(CodeText), HttpError(ResetText),
     OtherError(QuotaText), OtherError(ResetText)}

KeyError(key) == [type |-> "KeyError", text |-> <<"'", key, "'">>]

\* The metrics of a "loading experience" section of the payload.
Metrics ==
    {"CUMULATIVE_LAYOUT_SHIFT_SCORE", "LARGEST_CONTENTFUL_PAINT_MS",
     "FIRST_CONTENTFUL_PAINT_MS", "FIRST_INPUT_DELAY_MS"}
MetricNo(metric) ==
    CASE metric = "CUMULATIVE_LAYOUT_SHIFT_SCORE" -> 1
      [] metric = "LARGEST_CONTENTFUL_PAINT_MS" -> 2
      [] metric = "FIRST_CONTENTFUL_PAINT_MS" -> 3
      [] metric = "FIRST_INPUT_DELAY_MS" -> 4

\* A section with its metrics, every value of it its own number (from base
\* on), and with the origin_fallback key absent, True or False.
Section(base, origin_fallback) ==
    [origin_fallback |-> origin_fallback,
     metrics |-> Some([metric \in Metrics |->
        [percentile |-> base + 10 * MetricNo(metric),
         distributions |->
            [k \in 1..3 |-> [proportion |-> base + 10 * MetricNo(metric) + k]]]])]

\* A section without the 'metrics' key.
BareSection(origin_fallback) == [origin_fallback |-> origin_fallback, metrics |-> None]

\* The payload, as far as _process_response reads it: the statusCode of
\* lighthouseResult (None: a key of that path is missing) and the two
\* sections (None: the key is not in the payload).
Payload(statusCode, originLoadingExperience, loadingExperience) ==
    [statusCode |-> statusCode,
     originLoadingExperience |-> originLoadingExperience,
     loadingExperience |-> loadingExperience]

StandardPayload == Payload(Some(200), Some(Section(100, None)), None)

Flags == {None, Some(TRUE), Some(FALSE)}
ProbePayloads ==
    {Payload(statusCode, origin, field) :
        statusCode \in {None, Some(200)},
        origin \in {None, Some(Section(100, None)), Some(Section(200, None))},
        field \in {None} \cup {Some(BareSection(f)) : f \in Flags}
                   \cup {Some(Section(base, f)) : base \in {100, 200}, f \in Flags}}

\* request.execute(): the answers the Metrics Source can give to a call
\* for url made during pass p; <<TRUE, payload>> or <<FALSE, exception>>.
Execute(url, p) ==
    CASE url = "up" -> {<<TRUE, StandardPayload>>}
      [] url = "flaky" -> IF p = 1 THEN {<<FALSE, OtherError(ResetText)>>}
                          ELSE {<<TRUE, StandardPayload>>}
      [] url = ProbeUrl -> {<<TRUE, payload>> : payload \in ProbePayloads}
                           \cup {<<FALSE, e>> : e \in Failures}
      [] OTHER -> {<<TRUE, StandardPayload>>, <<FALSE, HttpError(QuotaText)>>}

\* loading_experience_dummy with every value read from section x.
loading_experience_dummy_OwnSection(response, x) ==
    IF response[x] = None THEN <<FALSE, KeyError(x)>>
    ELSE IF response[x][1].metrics = None THEN <<FALSE, KeyError("metrics")>>
    ELSE IF response.originLoadingExperience = None
    THEN <<FALSE, KeyError("originLoadingExperience")>>
    ELSE IF response.originLoadingExperience[1].metrics = None
    THEN <<FALSE, KeyError("metrics")>>
    ELSE
    LET own == response[x][1].metrics[1]
        origin == response.originLoadingExperience[1].metrics[1]
        cls == own["CUMULATIVE_LAYOUT_SHIFT_SCORE"]
        lcp == own["LARGEST_CONTENTFUL_PAINT_MS"]
        fcp == own["FIRST_CONTENTFUL_PAINT_MS"]
        fid == own["FIRST_INPUT_DELAY_MS"]
    IN  <<TRUE,
          [cls |-> cls.percentile,
           clsGood |-> cls.distributions[1].proportion,
           clsMedium |-> cls.distributions[2].proportion,
           clsBad |-> cls.distributions[3].proportion,
           lcp |-> lcp.percentile,
           lcpGood |-> lcp.distributions[1].proportion,
           lcpMedium |-> lcp.distributions[2].proportion,
           lcpBad |-> lcp.distributions[3].proportion,
           fcp |-> fcp.percentile,
           fcpGood |-> fcp.distributions[1].proportion,
           fcpMedium |-> fcp.distributions[2].proportion,
           fcpBad |-> fcp.distributions[3].proportion,
           fid |-> fid.percentile,
           fidGood |-> fid.distributions[1].proportion,
           fidMedium |-> fid.distributions[2].proportion,
           fidBad |-> fid.distributions[3].proportion]>>

\* Lines 292-309, the lambda loading_experience_dummy: the dict of section
\* x, <<TRUE, dict>>, or the KeyError of the first key missing,
\* <<FALSE, KeyError>>.
loading_experience_dummy(response, x) ==
    IF response[x] = None THEN <<FALSE, KeyError(x)>>
    ELSE IF response[x][1].metrics = None THEN <<FALSE, KeyError("metrics")>>
    ELSE IF response.originLoadingExperience = None
    THEN <<FALSE, KeyError("originLoadingExperience")>>
    ELSE IF response.originLoadingExperience[1].metrics = None
    THEN <<FALSE, KeyError("metrics")>>
    ELSE
    LET own == response[x][1].metrics[1]
        origin == response.originLoadingExperience[1].metrics[1]
        cls == own["CUMULATIVE_LAYOUT_SHIFT_SCORE"]
        lcp == own["LARGEST_CONTENTFUL_PAINT_MS"]
        fcp == own["FIRST_CONTENTFUL_PAINT_MS"]
        fid == own["FIRST_INPUT_DELAY_MS"]
    IN  <<TRUE,
          [cls |-> cls.percentile,
           clsGood |-> cls.distributions[1].proportion,
           clsMedium |-> cls.distributions[2].proportion,
           clsBad |-> cls.distributions[3].proportion,
           lcp |-> lcp.percentile,
           lcpGood |-> lcp.distributions[1].proportion,
           lcpMedium |-> lcp.distributions[2].proportion,
           lcpBad |-> lcp.distributions[3].proportion,
           fcp |-> origin["FIRST_CONTENTFUL_PAINT_MS"].percentile,
           fcpGood |-> fcp.distributions[1].proportion,
           fcpMedium |-> fcp.distributions[2].proportion,
           fcpBad |-> fcp.distributions[3].proportion,
           fid |-> origin["FIRST_INPUT_DELAY_MS"].percentile,
           fidGood |-> fid.distributions[1].proportion,
           fidMedium |-> fid.distributions[2].proportion,
           fidBad |-> fid.distributions[3].proportion]>>

\* Lines 344-347: the payload has a loadingExperience that is no origin
\* fallback.
has_own_experience(response) ==
    /\ response.loadingExperience # None
    /\ \/ response.loadingExperience[1].origin_fallback = None
       \/ response.loadingExperience[1].origin_fallback[1] # TRUE

\* process_response that reads the payload with defaults (dict.get) and so
\* never raises.
process_response_Lenient(response, req) ==
    LET origin == loading_experience_dummy(response, "originLoadingExperience")
        own == loading_experience_dummy(response, "loadingExperience")
    IN  <<TRUE,
          [req |-> req.id, url |-> req.url, strategy |-> req.strategy,
           statusCode |-> IF response.statusCode = None THEN 0
                          ELSE response.statusCode[1],
           cluster |-> req.cluster,
           originLoadingExperience |-> IF origin[1] THEN origin[2] ELSE None,
           loadingExperience |->
               IF has_own_experience(response) /\ own[1] THEN Some(own[2]) ELSE None]>>

\* process_response with loadingExperience filled in whenever the payload
\* has the section.
process_response_AnyField(response, req) ==
    LET origin == loading_experience_dummy(response, "originLoadingExperience")
        own == loading_experience_dummy(response, "loadingExperience")
        has_own == response.loadingExperience # None
    IN  IF response.statusCode = None THEN <<FALSE, KeyError("statusCode")>>
        ELSE IF ~origin[1] THEN origin
        ELSE IF has_own /\ ~own[1] THEN own
        ELSE <<TRUE,
               [req |-> req.id, url |-> req.url, strategy |-> req.strategy,
                statusCode |-> response.statusCode[1], cluster |-> req.cluster,
                originLoadingExperience |-> origin[2],
                loadingExperience |-> IF has_own THEN Some(own[2]) ELSE None]>>

\* _process_response, lines 291-350: <<TRUE, data>>, or <<FALSE, KeyError>>
\* for a payload that lacks a key read (date and labdata are left out; req
\* names the request object the record was made for, the code's record
\* carries no such field).
process_response(response, req) ==
    LET origin == loading_experience_dummy(response, "originLoadingExperience")
        own == loading_experience_dummy(response, "loadingExperience")
    IN  IF response.statusCode = None THEN <<FALSE, KeyError("statusCode")>>
        ELSE IF ~origin[1] THEN origin
        ELSE IF has_own_experience(response) /\ ~own[1] THEN own
        ELSE <<TRUE,
               [req |-> req.id, url |-> req.url, strategy |-> req.strategy,
                statusCode |-> response.statusCode[1], cluster |-> req.cluster,
                originLoadingExperience |-> origin[2],
                loadingExperience |->
                    IF has_own_experience(response) THEN Some(own[2]) ELSE None]>>

(***************************************************************************)
(* status_code_regex = status[\s\-_]code:?\s?(\d+), IGNORECASE, over a     *)
(* text given as its tokens (words, digits and punctuation marks).         *)
(***************************************************************************)
Digits == {"0", "1", "2", "3", "4", "5", "6", "7", "8", "9"}
DigitValue(d) ==
    CASE d = "0" -> 0 [] d = "1" -> 1 [] d = "2" -> 2 [] d = "3" -> 3
      [] d = "4" -> 4 [] d = "5" -> 5 [] d = "6" -> 6 [] d = "7" -> 7
      [] d = "8" -> 8 [] d = "9" -> 9

Lower(t) ==
    CASE t \in {"Status", "STATUS"} -> "status"
      [] t \in {"Code", "CODE"} -> "code"
      [] OTHER -> t

At(text, i) == IF i \in 1..Len(text) THEN text[i] ELSE ""

\* Where the digits of a match whose "status" is token i start; 0 if none.
DigitsStart(text, i) ==
    LET afterColon == IF At(text, i + 3) = ":" THEN i + 4 ELSE i + 3
        afterSpace == IF At(text, afterColon) = " " THEN afterColon + 1 ELSE afterColon
    IN  IF /\ Lower(At(text, i)) = "status"
           /\ At(text, i + 1) \in {" ", "-", "_"}
           /\ Lower(At(text, i + 2)) = "code"
           /\ At(text, afterSpace) \in Digits
        THEN afterSpace ELSE 0

RECURSIVE Number(_, _, _)
Number(text, i, acc) ==
    IF At(text, i) \in Digits
    THEN Number(text, i + 1, 10 * acc + DigitValue(text[i]))
    ELSE acc

\* status_code_regex.search(text): int(match.group(1)) of the leftmost match.
status_code_search(text) ==
    LET hits == {i \in 1..Len(text) : DigitsStart(text, i) # 0}
    IN  IF hits = {} THEN None
        ELSE LET first == CHOOSE i \in hits : \A j \in hits : i <= j
             IN  Some(Number(text, DigitsStart(text, first), 0))

(***************************************************************************)
(* State.                                                                  *)
(***************************************************************************)
VARIABLES
    database,         \* module_configuration.database
    configurations,   \* module_configuration.settings['configurations']
    pc,               \* where the main thread is
    conf,             \* run: index of the block being processed
    raised,           \* the exception that ended run(), if any
    requests,         \* _process_configuration: requests
    responses,        \* _process_configuration: responses
    log,              \* _process_configuration: log
    failed_requests,  \* _process_configuration / _process_requests: failed_requests
    pass,             \* which call of _process_requests is running (1, 2)
    pass_requests,    \* _process_requests: its requests parameter
    chunk,            \* _process_requests: index of requests_chunk
    threads,          \* _process_requests: threads
    joined,           \* _process_requests: how many of threads are joined
    calls,            \* Metrics Source calls issued in the run
    started,          \* per block: <<request id, pass>> of every thread started
    answered,         \* per block: <<request id, pass, ok>> of every thread that ended
    slept,            \* per pass: seconds slept by _process_requests
    cooled,           \* no thread was started since the last sleep
    sink              \* what the Record Sink was given, one entry per write

vars == <<database, configurations, pc, conf, raised, requests, responses, log,
          failed_requests, pass, pass_requests, chunk, threads, joined,
          calls, started, answered, slept, cooled, sink>>

(***************************************************************************)
(* _process_configuration, lines 54-109.                                   *)
(***************************************************************************)
\* Lines 59-63: the bigquery sink needs a tablename.
missing_tablename(configuration) ==
    database = "bigquery" /\ configuration.tablename = None

\* invalid_url that looks at the first url of every cluster only.
invalid_url_FirstOnly(configuration) ==
    \E c \in 1..Len(configuration.cluster) :
        /\ Len(configuration.cluster[c][2]) > 0
        /\ LET url == configuration.cluster[c][2][1]
           IN  ~is_str(url) \/ ~validate_url(url)

\* Lines 80-86: some listed url is no str or fails the validator.
invalid_url(configuration) ==
    \E c \in 1..Len(configuration.cluster) :
        \E u \in 1..Len(configuration.cluster[c][2]) :
            LET url == configuration.cluster[c][2][u]
            IN  ~is_str(url) \/ ~validate_url(url)

\* Lines 96-97.
invalid_strategy(configuration) ==
    /\ configuration.strategy # None
    /\ configuration.strategy[1] \notin STRATEGIES_ALLOWED

\* resolve_strategies without the branch for 'both'.
resolve_strategies_UpperOnly(configuration) ==
    IF configuration.strategy = None THEN <<"DESKTOP">>
    ELSE <<Upper(configuration.strategy[1])>>

\* Lines 55, 90-95.
resolve_strategies(configuration) ==
    IF configuration.strategy = None THEN <<"DESKTOP">>
    ELSE IF configuration.strategy[1] = "both" THEN <<"DESKTOP", "MOBILE">>
    ELSE <<Upper(configuration.strategy[1])>>

\* Lines 99-100.
resolve_api_key(configuration, api_key) ==
    IF configuration.apiKey # None THEN configuration.apiKey[1] ELSE api_key

\* Lines 106-109: for cluster, for url, for strategy: requests.append(...).
\* id is the identity of the list object; list equality does not see it.
build_requests(cluster, strategies, api_key) ==
    LET of_url(name, url) ==
            [s \in 1..Len(strategies) |->
                [url |-> url, cluster |-> name, strategy |-> strategies[s],
                 api_key |-> api_key]]
        of_cluster(c) ==
            Concat([u \in 1..Len(c[2]) |-> of_url(c[1], c[2][u])])
        flat == Concat([c \in 1..Len(cluster) |-> of_cluster(cluster[c])])
    IN  [i \in 1..Len(flat) |->
            [id |-> i, url |-> flat[i].url, cluster |-> flat[i].cluster,
             strategy |-> flat[i].strategy, api_key |-> flat[i].api_key]]

\* What == compares of a request: [url, cluster_name, strategy, api_key].
Value(request) ==
    <<request.url, request.cluster, request.strategy, request.api_key>>

(***************************************************************************)
(* _process_requests, lines 128-184.                                       *)
(***************************************************************************)
\* requests_chunks with the requests of every chunk in reverse order.
requests_chunks_Reversed(reqs) ==
    [k \in 1..((Len(reqs) + MAX_PARALLEL_REQUESTS - 1) \div MAX_PARALLEL_REQUESTS) |->
        LET first == (k - 1) * MAX_PARALLEL_REQUESTS + 1
            last == Min(k * MAX_PARALLEL_REQUESTS, Len(reqs))
        IN  [j \in 1..(last - first + 1) |-> reqs[last - j + 1]]]

\* requests_chunks with the slice one request longer than the step.
requests_chunks_Overlap(reqs) ==
    [k \in 1..((Len(reqs) + MAX_PARALLEL_REQUESTS - 1) \div MAX_PARALLEL_REQUESTS) |->
        SubSeq(reqs, (k - 1) * MAX_PARALLEL_REQUESTS + 1,
               Min(k * MAX_PARALLEL_REQUESTS + 1, Len(reqs)))]

\* Lines 132-135.
requests_chunks(reqs) ==
    [k \in 1..((Len(reqs) + MAX_PARALLEL_REQUESTS - 1) \div MAX_PARALLEL_REQUESTS) |->
        SubSeq(reqs, (k - 1) * MAX_PARALLEL_REQUESTS + 1,
               Min(k * MAX_PARALLEL_REQUESTS, Len(reqs)))]

\* list.index: the position of the first chunk equal to c.
chunk_index(chunks, c) ==
    LET same(x, y) ==
            /\ Len(x) = Len(y)
            /\ \A i \in 1..Len(x) : Value(x[i]) = Value(y[i])
    IN  CHOOSE k \in 1..Len(chunks) :
            /\ same(chunks[k], c)
            /\ \A j \in 1..(k - 1) : ~same(chunks[j], c)

\* Line 181: whether the loop sleeps after chunk k.
sleeps_after(chunks, k) == Len(chunks) # chunk_index(chunks, chunks[k])

\* Line 149: the thread's attempt counts as failed.
attempt_failed(thread) == thread.exception # None \/ thread.result = None

\* failure_status_code with the text of any exception searched.
failure_status_code_AnyKind(thread) ==
    IF thread.exception # None
    THEN status_code_search(thread.exception[1].text)
    ELSE None

\* Lines 150-156.
failure_status_code(thread) ==
    IF thread.exception # None /\ thread.exception[1].type = "HttpError"
    THEN status_code_search(thread.exception[1].text)
    ELSE None

\* Lines 158-165 and 172-179 (date left out; req as in process_response).
log_entry(thread) ==
    LET request == thread.request
    IN  IF attempt_failed(thread)
        THEN [req |-> request.id, url |-> request.url, cluster |-> request.cluster,
              strategy |-> request.strategy,
              statusCode |-> failure_status_code(thread),
              message |-> IF thread.exception # None
                          THEN Some(thread.exception[1].text)
                          ELSE Some(<<"None">>)]
        ELSE [req |-> request.id, url |-> request.url, cluster |-> request.cluster,
              strategy |-> request.strategy,
              statusCode |-> Some(thread.result[1].statusCode),
              message |-> None]

\* Lines 186-201: the worker's call; the payload is normalised, a failure
\* of the call is raised on.
process_pagespeed_api(request, answer) ==
    IF answer[1] THEN process_response(answer[2], request) ELSE answer

\* utilities.thread.ResultThread.run: keeps what the method returned or raised.
ResultThread_run(thread, outcome) ==
    [thread EXCEPT !.alive = FALSE,
                   !.result = IF outcome[1] THEN Some(outcome[2]) ELSE None,
                   !.exception = IF outcome[1] THEN None ELSE Some(outcome[2])]

\* Lines 141-143: ResultThread(self._process_pagespeed_api, request), started
\* (response: the payload request.execute() returned in the thread, if any).
new_thread(request) ==
    [request |-> request, alive |-> TRUE, response |-> None,
     result |-> None, exception |-> None]

\* The call self._process_requests(reqs, responses, log), lines 128-137.
call_process_requests(reqs, p) ==
    /\ pass' = p
    /\ pass_requests' = reqs
    /\ failed_requests' = <<>>
    /\ chunk' = 1
    /\ threads' = <<>>
    /\ joined' = 0
    /\ slept' = 0
    /\ pc' = IF Len(reqs) = 0 THEN "return" ELSE "start"

\* Lines 54-97: what _process_configuration raises for the block, if anything.
configuration_error(configuration) ==
    IF missing_tablename(configuration) THEN Some("ConfigurationMissingError")
    ELSE IF invalid_url(configuration) THEN Some("ConfigurationInvalidError")
    ELSE IF invalid_strategy(configuration) THEN Some("ConfigurationInvalidError")
    ELSE None

(***************************************************************************)
(* Actions.                                                                *)
(***************************************************************************)
\* ProcessConfiguration with responses and log kept from block to block.
ProcessConfiguration_KeepCollections ==
    /\ pc = "run"
    /\ conf <= Len(configurations)
    /\ LET configuration == configurations[conf]
           error == configuration_error(configuration)
       IN  IF error # None
           THEN /\ raised' = error
                /\ pc' = "raised"
                /\ UNCHANGED <<requests, responses, log, failed_requests, pass,
                               pass_requests, chunk, threads, joined, started, answered, slept>>
           ELSE /\ requests' = build_requests(configuration.cluster,
                                              resolve_strategies(configuration),
                                              resolve_api_key(configuration, ModuleApiKey))
                /\ started' = <<>>
                /\ answered' = {}
                /\ call_process_requests(requests', 1)
                /\ UNCHANGED <<raised, responses, log>>
    /\ UNCHANGED <<database, configurations, conf, calls, cooled, sink>>

\* run, lines 49-50, and _process_configuration up to its first call of
\* _process_requests (line 111).
ProcessConfiguration ==
    /\ pc = "run"
    /\ conf <= Len(configurations)
    /\ LET configuration == configurations[conf]
           error == configuration_error(configuration)
       IN  IF error # None
           THEN /\ raised' = error
                /\ pc' = "raised"
                /\ UNCHANGED <<requests, responses, log, failed_requests, pass,
                               pass_requests, chunk, threads, joined, started, answered, slept>>
           ELSE /\ requests' = build_requests(configuration.cluster,
                                              resolve_strategies(configuration),
                                              resolve_api_key(configuration, ModuleApiKey))
                /\ responses' = <<>>
                /\ log' = <<>>
                /\ started' = <<>>
                /\ answered' = {}
                /\ call_process_requests(requests', 1)
                /\ UNCHANGED raised
    /\ UNCHANGED <<database, configurations, conf, calls, cooled, sink>>

\* Lines 140-143: the next request of the chunk gets its thread.
StartThread ==
    /\ pc = "start"
    /\ LET requests_chunk == requests_chunks(pass_requests)[chunk]
           request == requests_chunk[Len(threads) + 1]
       IN  /\ threads' = Append(threads, new_thread(request))
           /\ started' = Append(started, <<request.id, pass>>)
           /\ pc' = IF Len(threads) + 1 = Len(requests_chunk) THEN "join" ELSE "start"
    /\ calls' = calls + 1
    /\ cooled' = FALSE
    /\ UNCHANGED <<database, configurations, conf, raised, requests, responses, log,
                   failed_requests, pass, pass_requests, chunk, joined, answered,
                   slept, sink>>

\* A started thread runs _process_pagespeed_api to its end.
Worker(i) ==
    /\ i \in 1..Len(threads)
    /\ threads[i].alive
    /\ \E answer \in Execute(threads[i].request.url, pass) :
           LET outcome == process_pagespeed_api(threads[i].request, answer)
               response == IF answer[1] THEN Some(answer[2]) ELSE None
           IN  /\ threads' = [threads EXCEPT ![i] =
                                 ResultThread_run([@ EXCEPT !.response = response], outcome)]
               /\ answered' = answered \cup {<<threads[i].request.id, pass, outcome[1]>>}
    /\ UNCHANGED <<database, configurations, pc, conf, raised, requests, responses, log,
                   failed_requests, pass, pass_requests, chunk, joined,
                   calls, started, slept, cooled, sink>>

\* JoinThread with a log entry written for failed attempts only.
JoinThread_LogFailures ==
    /\ pc = "join"
    /\ ~threads[joined + 1].alive
    /\ LET thread == threads[joined + 1]
       IN  IF attempt_failed(thread)
           THEN /\ failed_requests' = Append(failed_requests, thread.request)
                /\ log' = Append(log, log_entry(thread))
                /\ UNCHANGED responses
           ELSE /\ responses' = Append(responses, thread.result[1])
                /\ UNCHANGED <<failed_requests, log>>
    /\ joined' = joined + 1
    /\ pc' = IF joined + 1 = Len(threads) THEN "chunk_end" ELSE "join"
    /\ UNCHANGED <<database, configurations, conf, raised, requests, pass, pass_requests,
                   chunk, threads, calls, started, answered, slept, cooled, sink>>

\* JoinThread that does not wait for the thread to end.
JoinThread_NoWait ==
    /\ pc = "join"
    /\ LET thread == threads[joined + 1]
       IN  /\ log' = Append(log, log_entry(thread))
           /\ IF attempt_failed(thread)
              THEN /\ failed_requests' = Append(failed_requests, thread.request)
                   /\ UNCHANGED responses
              ELSE /\ responses' = Append(responses, thread.result[1])
                   /\ UNCHANGED failed_requests
    /\ joined' = joined + 1
    /\ pc' = IF joined + 1 = Len(threads) THEN "chunk_end" ELSE "join"
    /\ UNCHANGED <<database, configurations, conf, raised, requests, pass, pass_requests,
                   chunk, threads, calls, started, answered, slept, cooled, sink>>

\* JoinThread with the newest log entry put first.
JoinThread_Prepend ==
    /\ pc = "join"
    /\ ~threads[joined + 1].alive
    /\ LET thread == threads[joined + 1]
       IN  /\ log' = <<log_entry(thread)>> \o log
           /\ IF attempt_failed(thread)
              THEN /\ failed_requests' = Append(failed_requests, thread.request)
                   /\ UNCHANGED responses
              ELSE /\ responses' = Append(responses, thread.result[1])
                   /\ UNCHANGED failed_requests
    /\ joined' = joined + 1
    /\ pc' = IF joined + 1 = Len(threads) THEN "chunk_end" ELSE "join"
    /\ UNCHANGED <<database, configurations, conf, raised, requests, pass, pass_requests,
                   chunk, threads, calls, started, answered, slept, cooled, sink>>

\* Lines 145-179: thread.join() of the next thread, then its outcome is
\* appended to log and to failed_requests or responses.
JoinThread ==
    /\ pc = "join"
    /\ ~threads[joined + 1].alive
    /\ LET thread == threads[joined + 1]
       IN  /\ log' = Append(log, log_entry(thread))
           /\ IF attempt_failed(thread)
              THEN /\ failed_requests' = Append(failed_requests, thread.request)
                   /\ UNCHANGED responses
              ELSE /\ responses' = Append(responses, thread.result[1])
                   /\ UNCHANGED failed_requests
    /\ joined' = joined + 1
    /\ pc' = IF joined + 1 = Len(threads) THEN "chunk_end" ELSE "join"
    /\ UNCHANGED <<database, configurations, conf, raised, requests, pass, pass_requests,
                   chunk, threads, calls, started, answered, slept, cooled, sink>>

\* Lines 181-182 and the step of the loop of line 137, or line 184.
ChunkEnd ==
    /\ pc = "chunk_end"
    /\ LET chunks == requests_chunks(pass_requests)
       IN  /\ IF sleeps_after(chunks, chunk)
              THEN /\ slept' = slept + SECONDS_BETWEEN_REQUESTS
                   /\ cooled' = TRUE
              ELSE UNCHANGED <<slept, cooled>>
           /\ IF chunk < Len(chunks)
              THEN /\ chunk' = chunk + 1
                   /\ threads' = <<>>
                   /\ joined' = 0
                   /\ pc' = "start"
              ELSE /\ pc' = "return"
                   /\ UNCHANGED <<chunk, threads, joined>>
    /\ UNCHANGED <<database, configurations, conf, raised, requests, responses, log,
                   failed_requests, pass, pass_requests, calls, started, answered, sink>>

\* Return with the second pass run over every request of the block.
Return_RetryAll ==
    /\ pc = "return"
    /\ IF pass = 1 /\ 0 < Len(failed_requests)
       THEN call_process_requests(requests, 2)
       ELSE /\ pc' = "sink"
            /\ UNCHANGED <<failed_requests, pass, pass_requests, chunk, threads,
                           joined, slept>>
    /\ UNCHANGED <<database, configurations, conf, raised, requests, responses, log,
                   calls, started, answered, cooled, sink>>

\* Return without the second pass.
Return_NoRetry ==
    /\ pc = "return"
    /\ pc' = "sink"
    /\ UNCHANGED <<failed_requests, pass, pass_requests, chunk, threads, joined, slept>>
    /\ UNCHANGED <<database, configurations, conf, raised, requests, responses, log,
                   calls, started, answered, cooled, sink>>

\* Return with requests that still fail after the second pass raised on.
Return_RaiseFailed ==
    /\ pc = "return"
    /\ IF pass = 1 /\ 0 < Len(failed_requests)
       THEN call_process_requests(failed_requests, 2) /\ UNCHANGED raised
       ELSE /\ pc' = IF 0 < Len(failed_requests) THEN "raised" ELSE "sink"
            /\ raised' = IF 0 < Len(failed_requests) THEN Some("FetchError") ELSE raised
            /\ UNCHANGED <<failed_requests, pass, pass_requests, chunk, threads,
                           joined, slept>>
    /\ UNCHANGED <<database, configurations, conf, requests, responses, log,
                   calls, started, answered, cooled, sink>>

\* Return with one more pass as long as requests fail.
Return_RetryWhileFailed ==
    /\ pc = "return"
    /\ IF 0 < Len(failed_requests)
       THEN call_process_requests(failed_requests, 2)
       ELSE /\ pc' = "sink"
            /\ UNCHANGED <<failed_requests, pass, pass_requests, chunk, threads,
                           joined, slept>>
    /\ UNCHANGED <<database, configurations, conf, raised, requests, responses, log,
                   calls, started, answered, cooled, sink>>

\* Lines 111-118: back from _process_requests; the failed requests of the
\* first pass get the second one.
Return ==
    /\ pc = "return"
    /\ IF pass = 1 /\ 0 < Len(failed_requests)
       THEN call_process_requests(failed_requests, 2)
       ELSE /\ pc' = "sink"
            /\ UNCHANGED <<failed_requests, pass, pass_requests, chunk, threads,
                           joined, slept>>
    /\ UNCHANGED <<database, configurations, conf, raised, requests, responses, log,
                   calls, started, answered, cooled, sink>>

\* Lines 120-126: the records (and for bigquery with a logTablename, the
\* log) go to the sink; the block is done.
WriteSink ==
    /\ pc = "sink"
    /\ sink' = Append(sink,
           [block |-> conf, records |-> responses,
            log |-> IF database = "bigquery" /\ configurations[conf].logTablename # None
                    THEN Some(log) ELSE None])
    /\ conf' = conf + 1
    /\ pc' = "run"
    /\ UNCHANGED <<database, configurations, raised, requests, responses, log,
                   failed_requests, pass, pass_requests, chunk, threads, joined,
                   calls, started, answered, slept, cooled>>

\* Line 52: every block is processed.
Finish ==
    /\ pc = "run"
    /\ conf > Len(configurations)
    /\ pc' = "done"
    /\ UNCHANGED <<database, configurations, conf, raised, requests, responses, log,
                   failed_requests, pass, pass_requests, chunk, threads, joined,
                   calls, started, answered, slept, cooled, sink>>

(***************************************************************************)
(* The runs checked.                                                       *)
(***************************************************************************)
StrategyOptions == {None} \cup {Some(s) : s \in STRATEGIES_ALLOWED \cup {"tablet"}}
ShortItems == AnyUrls \cup {BadUrl}

OneCluster(urls) == <<(<<"c1", urls>>)>>

\* One block, one cluster: every short url list under every strategy.
ShortRuns ==
    {<<Block(OneCluster(urls), strategy, None, None, None)>> :
        urls \in SeqsUpTo(ShortItems, MaxUrls), strategy \in StrategyOptions}

\* One block, two clusters.
ClusterRuns ==
    {<<Block(<<(<<"c1", u1>>), (<<"c2", u2>>)>>, None, None, None, None)>> :
        u1 \in SeqsUpTo(ShortItems, 1), u2 \in SeqsUpTo(ShortItems, 1)}

\* One block with the optional keys set or not.
KeyRuns ==
    {<<Block(OneCluster(urls), None, apiKey, tablename, logTablename)>> :
        urls \in SeqsUpTo({"a", NonStr}, 1), apiKey \in {None, Some("K1")},
        tablename \in {None, Some("t")}, logTablename \in {None, Some("l")}}

\* Several blocks of one url each.
UnitBlocks ==
    {Block(OneCluster(<<url>>), strategy, None, Some("t"), None) :
        url \in ShortItems, strategy \in {None, Some("tablet")}}
BlockRuns == UNION {[1..n -> UnitBlocks] : n \in 2..MaxBlocks}

\* One block whose url list fills whole chunks ("up" urls, then at most one
\* chunk of "flaky" ones), with or without one more url.
LongSizes ==
    {n \in (0..MaxChunks) \X (0..1) : n[1] + n[2] \in 1..MaxChunks}
LongRuns ==
    {<<Block(OneCluster(Copies("up", n[1] * MAX_PARALLEL_REQUESTS)
                        \o Copies("flaky", n[2] * MAX_PARALLEL_REQUESTS) \o rest),
             None, None, Some("t"), None)>> :
        n \in LongSizes, rest \in SeqsUpTo({"flaky"}, 1)}

\* One block with its own api key, under every allowed strategy.
KeyedRuns ==
    {<<Block(OneCluster(Copies("up", n)), Some(strategy), Some("K1"), Some("t"), None)>> :
        n \in 1..MaxUrls, strategy \in STRATEGIES_ALLOWED}

\* Several blocks of one url each, with or without an apiKey of their own.
KeyBlocks ==
    {Block(OneCluster(<<url>>), None, apiKey, Some("t"), Some("l")) :
        url \in AnyUrls, apiKey \in {None, Some("K1")}}
KeyBlockRuns == [1..MaxBlocks -> KeyBlocks]

\* One block with the probe url.
ProbeRuns == {<<Block(OneCluster(<<ProbeUrl>>), None, None, Some("t"), None)>>}

Init ==
    /\ \/ /\ database = "mongodb"
          /\ configurations \in ShortRuns \cup ClusterRuns \cup BlockRuns \cup LongRuns
                                  \cup ProbeRuns \cup KeyedRuns
       \/ /\ database \in {"mongodb", "bigquery"}
          /\ configurations \in KeyRuns
       \/ /\ database = "bigquery"
          /\ configurations \in KeyBlockRuns
    /\ pc = "run"
    /\ conf = 1
    /\ raised = None
    /\ requests = <<>>
    /\ responses = <<>>
    /\ log = <<>>
    /\ failed_requests = <<>>
    /\ pass = 0
    /\ pass_requests = <<>>
    /\ chunk = 0
    /\ threads = <<>>
    /\ joined = 0
    /\ calls = 0
    /\ started = <<>>
    /\ answered = {}
    /\ slept = 0
    /\ cooled = TRUE
    /\ sink = <<>>

Next ==
    \/ ProcessConfiguration
    \/ StartThread
    \/ \E i \in 1..MAX_PARALLEL_REQUESTS : Worker(i)
    \/ JoinThread
    \/ ChunkEnd
    \/ Return
    \/ WriteSink
    \/ Finish

Spec == Init /\ [][Next]_vars

\* The steps of the main thread.
MainThread ==
    \/ ProcessConfiguration
    \/ StartThread
    \/ JoinThread
    \/ ChunkEnd
    \/ Return
    \/ WriteSink
    \/ Finish

\* One block whose requests, all failing in the first pass, fill a chunk
\* and one more in both passes.
SpillRuns ==
    {<<Block(OneCluster(Copies("flaky", MAX_PARALLEL_REQUESTS + 1)),
             None, None, Some("t"), None)>>}

FairInit ==
    /\ Init
    /\ database = "mongodb"
    /\ configurations \in ClusterRuns \cup ProbeRuns \cup KeyedRuns \cup SpillRuns

\* The run in which the main thread goes on whenever it can and every
\* call of the Metrics Source returns (with a payload or an exception).
FairSpec ==
    /\ FairInit
    /\ [][Next]_vars
    /\ WF_vars(MainThread)
    /\ WF_vars(\E i \in 1..MAX_PARALLEL_REQUESTS : Worker(i))

(***************************************************************************)
(* Properties.                                                             *)
(***************************************************************************)
Ids == 1..Len(requests)
RecordsOf(id) == {i \in 1..Len(responses) : responses[i].req = id}
FailedOf(id) == {i \in 1..Len(failed_requests) : failed_requests[i].id = id}
LogOf(id) == {i \in 1..Len(log) : log[i].req = id}
StartsOf(id, p) == {i \in 1..Len(started) : started[i] = <<id, p>>}
FailedIn(id, p) == <<id, p, FALSE>> \in answered
AnsweredIn(id, p) == <<id, p, TRUE>> \in answered

\* C1: when both passes of a block are over, every request of the block has
\* exactly one record or is exactly once in the final failed list, never
\* both and never neither, so len(records) + len(failed) = N.
C1_AccountedOnce ==
    pc = "sink" =>
        /\ \A id \in Ids : Cardinality(RecordsOf(id)) + Cardinality(FailedOf(id)) = 1
        /\ Len(responses) + Len(failed_requests) = Len(requests)

\* C1's case: a retry pass has run and left both a record of a retried
\* request and a request that failed twice.
C1_Witness ==
    /\ pc = "sink"
    /\ pass = 2
    /\ \E id \in Ids : FailedIn(id, 1) /\ RecordsOf(id) # {}
    /\ \E id \in Ids : FailedOf(id) # {}

\* The requests of the block whose first attempt failed, in request order.
FailedFirst == SelectSeq(requests, LAMBDA r : FailedIn(r.id, 1))

\* C2: a request is attempted once in the first pass, a second time if and
\* only if that attempt failed (the second pass runs over exactly the failed
\* list of the first and is skipped when that list is empty), and never a
\* third time nor again after a success.
C2_AtMostTwoAttempts ==
    /\ \A i \in 1..Len(started) :
          /\ started[i][1] \in Ids
          /\ started[i][2] \in {1, 2}
          /\ started[i][2] = 2 =>
                FailedIn(started[i][1], 1) /\ ~AnsweredIn(started[i][1], 1)
    /\ Cardinality({started[i] : i \in 1..Len(started)}) = Len(started)
    /\ pass = 2 => pass_requests = FailedFirst /\ FailedFirst # <<>>
    /\ pc = "sink" =>
          /\ \A id \in Ids :
                /\ Cardinality(StartsOf(id, 1)) = 1
                /\ Cardinality(StartsOf(id, 2)) = IF FailedIn(id, 1) THEN 1 ELSE 0
          /\ FailedFirst = <<>> => pass = 1

\* C2's case: the passes are over, one request was retried and another,
\* which succeeded at once, was not.
C2_Witness ==
    /\ pc = "sink"
    /\ \E id \in Ids : StartsOf(id, 2) # {}
    /\ \E id \in Ids : StartsOf(id, 2) = {} /\ AnsweredIn(id, 1)

\* C3: one log entry per attempt (the log has one entry for every thread
\* started but those not yet joined): after both passes the log has N + F
\* entries, F the number of requests that failed in the first pass; a
\* request that failed and then succeeded has two entries, a failure
\* followed by a success with message None, and one record.
C3_OneLogEntryPerAttempt ==
    /\ Len(log) = Len(started) - (Len(threads) - joined)
    /\ pc = "sink" =>
          /\ Len(log) = Len(requests) + Len(FailedFirst)
          /\ \A id \in Ids :
                /\ Cardinality(LogOf(id)) =
                       Cardinality(StartsOf(id, 1)) + Cardinality(StartsOf(id, 2))
                /\ FailedIn(id, 1) /\ AnsweredIn(id, 2) =>
                      /\ Cardinality(RecordsOf(id)) = 1
                      /\ Cardinality(LogOf(id)) = 2
                      /\ \A i, j \in LogOf(id) :
                            i < j => log[i].message # None /\ log[j].message = None

\* C3's case: the passes are over and a request failed, then succeeded.
C3_Witness ==
    /\ pc = "sink"
    /\ \E id \in Ids : FailedIn(id, 1) /\ AnsweredIn(id, 2)

\* Every record the sink was given during the run, in the order given.
SinkRecords == Concat([w \in 1..Len(sink) |-> sink[w].records])

\* C4: the records handed to the sink in one run hold no two records with
\* the same (url, strategy) pair.
C4_NoDuplicateRecords ==
    \A i, j \in 1..Len(SinkRecords) :
        i # j => <<SinkRecords[i].url, SinkRecords[i].strategy>>
                    # <<SinkRecords[j].url, SinkRecords[j].strategy>>

Ceil(n, d) == IF n % d = 0 THEN n \div d ELSE n \div d + 1

\* C5: a pass over N requests is split into ceil(N/10) chunks and sleeps
\* SECONDS_BETWEEN_REQUESTS exactly chunks - 1 times (not at all for N <= 10),
\* never after the last chunk.
C5_PausesBetweenChunks ==
    pc = "return" =>
        LET chunks == Ceil(Len(pass_requests), MAX_PARALLEL_REQUESTS)
        IN  /\ Len(requests_chunks(pass_requests)) = chunks
            /\ slept = SECONDS_BETWEEN_REQUESTS * (IF chunks = 0 THEN 0 ELSE chunks - 1)

Alive == {i \in 1..Len(threads) : threads[i].alive}
Ended(id, p) == FailedIn(id, p) \/ AnsweredIn(id, p)
\* The chunk of the request at position i of the pass's request list.
ChunkOf(i) == (i - 1) \div MAX_PARALLEL_REQUESTS + 1

\* C6: at most MAX_PARALLEL_REQUESTS worker threads run at once, and in
\* either pass no request of a chunk is started before every worker of the
\* chunks before it has ended; the second pass starts after every worker
\* of the first has ended.
C6_BoundedParallelism ==
    /\ Cardinality(Alive) <= MAX_PARALLEL_REQUESTS
    /\ pc \notin {"start", "join"} => Alive = {}
    /\ LET startedNow == {s[1] : s \in {started[k] : k \in 1..Len(started)} \cap (Ids \X {pass})}
           endedNow == {a[1] : a \in {a \in answered : a[2] = pass}}
           startedChunks ==
               {ChunkOf(j) : j \in {j \in 1..Len(pass_requests) :
                                       pass_requests[j].id \in startedNow}}
       IN  \A i \in 1..Len(pass_requests) :
               (\E c \in startedChunks : ChunkOf(i) < c) => pass_requests[i].id \in endedNow
    /\ pass = 2 => \A id \in Ids : Ended(id, 1)

\* C6's case: ten workers of a second chunk run at once.
C6_Witness ==
    /\ Cardinality(Alive) = MAX_PARALLEL_REQUESTS
    /\ chunk = 2

\* C7: between the end of a burst of Metrics Source requests and the start
\* of the next burst of the run there is a sleep: a chunk's first thread is
\* started only if the main thread slept since the last thread start.
C7_CooldownBetweenBursts ==
    [][(calls > 0 /\ calls' = calls + 1 /\ Len(threads') = 1) => cooled]_vars

\* C8 (as amended): a worker never writes log, responses or failed_requests,
\* and the main thread appends a thread's outcome only after that thread and
\* the threads started before it in the chunk have ended; threads started
\* after it may still run.
C8_MergedAfterOwnJoin ==
    /\ [](/\ joined <= Len(threads)
          /\ \A i \in 1..joined :
                /\ ~threads[i].alive
                /\ log[Len(log) - joined + i].req = threads[i].request.id)
    /\ [][(\E i \in 1..Len(threads) :
              /\ threads[i].alive
              /\ i <= Len(threads')
              /\ ~threads'[i].alive)
          => UNCHANGED <<log, responses, failed_requests>>]_vars

\* C8's case: an outcome of the chunk is appended while a later thread of
\* the chunk still runs.
C8_Witness ==
    /\ joined >= 1
    /\ Alive # {}

\* C8 (as claimed): nothing is appended for a chunk while a worker of that
\* chunk is still running.
C8_JoinThenMerge == joined >= 1 => Alive = {}

\* C9: when a ConfigurationError ends the run, no Metrics Source call has
\* been made in the whole run.
C9_NoCallBeforeConfigurationError == raised # None => calls = 0

\* C10: only a configuration error ends the run early; whatever fails in
\* the fetches, every block is written to the sink once, in turn (the main
\* thread goes on once the threads of a chunk are joined), the records
\* written are exactly those of the attempts that succeeded, and a request
\* of the final failed list has none.
C10_FailuresContained ==
    /\ raised # None => configuration_error(configurations[conf]) # None
    /\ pc \in {"chunk_end", "return", "sink"} => ENABLED (ChunkEnd \/ Return \/ WriteSink)
    /\ pc = "run" => ENABLED (ProcessConfiguration \/ Finish)
    /\ Len(sink) = conf - 1
    /\ \A w \in 1..Len(sink) : sink[w].block = w
    /\ pc = "done" => Len(sink) = Len(configurations)
    /\ pc \in {"sink", "run", "done"} =>
          /\ \A id \in Ids :
                /\ Cardinality(RecordsOf(id)) =
                       IF AnsweredIn(id, 1) \/ AnsweredIn(id, 2) THEN 1 ELSE 0
                /\ FailedOf(id) # {} => RecordsOf(id) = {}
          /\ \A i \in 1..Len(responses) : responses[i].req \in Ids
    /\ pc \in {"run", "done"} /\ Len(sink) >= 1 => sink[Len(sink)].records = responses

\* C10's case: the only request of the first block failed twice, and the
\* run went on to write the second block's record.
C10_Witness ==
    /\ pc = "done"
    /\ Len(sink) >= 2
    /\ configurations[1].cluster[1][2] # <<>>
    /\ sink[1].records = <<>>
    /\ sink[2].records # <<>>

IsPrefix(s, t) == Len(s) <= Len(t) /\ SubSeq(t, 1, Len(s)) = s

\* C11: within a block the records and the log only grow at their end (what
\* the first pass left stays, unchanged and in order, as a prefix of what the
\* retry pass leaves), the log holds the attempts in the order they were
\* started, so every first-pass entry precedes every retry-pass entry, and
\* the first-pass entry of a request precedes its retry entry.
C11_AppendOnlyInAttemptOrder ==
    /\ [](/\ Len(log) <= Len(started)
          /\ \A i \in 1..Len(log) : log[i].req = started[i][1]
          /\ \A i \in 1..(Len(started) - 1) : started[i][2] <= started[i + 1][2]
          /\ \A i, j \in 1..Len(log) :
                (log[i].req = log[j].req /\ started[i][2] < started[j][2]) => i < j)
    /\ [][pc # "run" => IsPrefix(log, log') /\ IsPrefix(responses, responses')]_vars

\* C11's case: the retry pass has appended a failure entry and a record
\* behind the entries and the record of the first pass.
C11_Witness ==
    /\ pc = "sink"
    /\ pass = 2
    /\ Len(responses) >= 2
    /\ responses[1].req \in {started[i][1] : i \in {k \in 1..Len(started) : started[k][2] = 1}}
    /\ AnsweredIn(responses[1].req, 1)
    /\ AnsweredIn(responses[Len(responses)].req, 2)
    /\ log[Len(log)].message # None

\* The log entry written for thread i of the chunk being joined.
JoinedEntry(i) == log[Len(log) - joined + i]

\* C12 (as amended): the failure log entry of an attempt that ended with an
\* HttpError has the number of the first "status code: N" shape of the
\* exception's text as its statusCode (429 for "Status-Code: 429 rate
\* limited", 503 for "STATUS_CODE503") and None if the text has no such
\* shape; the entry of an attempt that failed in any other way has
\* statusCode None whatever the text.
C12_StatusCodeOfHttpError ==
    \A i \in 1..joined :
        LET exception == threads[i].exception
            entry == JoinedEntry(i)
        IN  exception # None =>
                /\ entry.message = Some(exception[1].text)
                /\ exception[1].type # "HttpError" => entry.statusCode = None
                /\ exception[1].type = "HttpError" =>
                      /\ entry.statusCode = status_code_search(exception[1].text)
                      /\ exception[1].text = QuotaText => entry.statusCode = Some(429)
                      /\ exception[1].text = CodeText => entry.statusCode = Some(503)
                      /\ exception[1].text = ResetText => entry.statusCode = None

\* C12's case: the log holds the entry of an HttpError with statusCode 429
\* and the entry of another exception with the same text and statusCode None.
C12_Witness ==
    /\ pc = "sink"
    /\ \E i, j \in 1..Len(log) :
          /\ log[i].message = Some(QuotaText) /\ log[i].statusCode = Some(429)
          /\ log[j].message = Some(QuotaText) /\ log[j].statusCode = None

\* C12 (as claimed): whatever the kind of failure, a failure log entry has
\* the number of the "status code: N" shape of its message as statusCode,
\* and None if the message has no such shape.
C12_StatusCodeOfAnyFailure ==
    \A i \in 1..Len(log) :
        log[i].message # None => log[i].statusCode = status_code_search(log[i].message[1])

\* The threads of the chunk whose call returned a record.
Produced == {i \in 1..Len(threads) : threads[i].result # None}
ExperienceKeys ==
    {"cls", "clsGood", "clsMedium", "clsBad", "lcp", "lcpGood", "lcpMedium", "lcpBad",
     "fcp", "fcpGood", "fcpMedium", "fcpBad", "fid", "fidGood", "fidMedium", "fidBad"}

\* C13: in every record produced, loadingExperience is None if the payload
\* has no loadingExperience section or the section's origin_fallback is
\* True, it is filled in if the section is there and origin_fallback is
\* False or not in it, and originLoadingExperience is always filled in.
C13_FieldExperienceRule ==
    \A i \in Produced :
        LET response == threads[i].response[1]
            data == threads[i].result[1]
            section == response.loadingExperience
        IN  /\ section = None => data.loadingExperience = None
            /\ section # None /\ section[1].origin_fallback = Some(TRUE) =>
                  data.loadingExperience = None
            /\ section # None /\ section[1].origin_fallback \in {None, Some(FALSE)} =>
                  /\ data.loadingExperience # None
                  /\ DOMAIN data.loadingExperience[1] = ExperienceKeys
            /\ DOMAIN data.originLoadingExperience = ExperienceKeys
            /\ response.originLoadingExperience # None

\* C13's case: a record made of a payload whose loadingExperience says
\* origin_fallback False, with loadingExperience filled in.
C13_Witness ==
    \E i \in Produced :
        /\ threads[i].response[1].loadingExperience # None
        /\ threads[i].response[1].loadingExperience[1].origin_fallback = Some(FALSE)
        /\ threads[i].result[1].loadingExperience # None

\* The block whose requests, records and log the main thread holds.
InBlock == pc \in {"start", "join", "chunk_end", "return", "sink"}
\* The urls a block lists, cluster after cluster, and the cluster of each.
ListedUrls(configuration) ==
    Concat([c \in 1..Len(configuration.cluster) |-> configuration.cluster[c][2]])
ListedClusters(configuration) ==
    Concat([c \in 1..Len(configuration.cluster) |->
               [u \in 1..Len(configuration.cluster[c][2]) |-> configuration.cluster[c][1]]])

\* C14: the requests of a valid block are the listed urls times the
\* strategies of the block, url after url and strategy after strategy:
\* DESKTOP without a strategy, the upper-cased name for desktop and mobile,
\* DESKTOP and MOBILE for both; each request carries the block's apiKey if
\* it has one and the module's key if not.
C14_RequestsAreCrossProduct ==
    InBlock =>
        LET configuration == configurations[conf]
            urls == ListedUrls(configuration)
            strategies ==
                CASE configuration.strategy = None -> <<"DESKTOP">>
                  [] configuration.strategy = Some("desktop") -> <<"DESKTOP">>
                  [] configuration.strategy = Some("mobile") -> <<"MOBILE">>
                  [] configuration.strategy = Some("both") -> <<"DESKTOP", "MOBILE">>
            key == IF configuration.apiKey = None THEN ModuleApiKey
                   ELSE configuration.apiKey[1]
            clusters == ListedClusters(configuration)
        IN  /\ Len(requests) = Len(urls) * Len(strategies)
            /\ \A u \in 1..Len(urls) : \A k \in 1..Len(strategies) :
                  LET request == requests[(u - 1) * Len(strategies) + k]
                  IN  /\ request.url = urls[u]
                      /\ request.cluster = clusters[u]
                      /\ request.strategy = strategies[k]
                      /\ request.api_key = key

\* C14's case: two urls under 'both' in a block with its own apiKey make
\* four requests.
C14_Witness ==
    /\ InBlock
    /\ configurations[conf].strategy = Some("both")
    /\ configurations[conf].apiKey = Some("K1")
    /\ Len(ListedUrls(configurations[conf])) = 2
    /\ Len(requests) = 4
    /\ requests[4].api_key = "K1"

\* The payload lacks a key that _process_response reads.
Malformed(response) ==
    \/ response.statusCode = None
    \/ response.originLoadingExperience = None
    \/ response.originLoadingExperience[1].metrics = None
    \/ /\ response.loadingExperience # None
       /\ response.loadingExperience[1].origin_fallback # Some(TRUE)
       /\ response.loadingExperience[1].metrics = None
\* The log entry of an attempt that ended with a KeyError.
ShapeFailure(entry) ==
    /\ entry.message # None
    /\ \E key \in {"statusCode", "originLoadingExperience", "loadingExperience", "metrics"} :
           entry.message = Some(KeyError(key).text)

\* C15: an attempt whose call returned a payload that lacks a key read by
\* the normalisation ends with an exception and without a record; once
\* joined it has a failure log entry (statusCode None) and its request is in
\* the failed list; a request that failed so in the first pass is started
\* exactly once more, in the retry pass, and has no record and stays in the
\* failed list if that attempt fails too.
C15_ShapeErrorsAreFetchFailures ==
    /\ \A i \in 1..Len(threads) :
          (threads[i].response # None /\ Malformed(threads[i].response[1])) =>
              /\ threads[i].exception # None
              /\ threads[i].result = None
              /\ i <= joined =>
                    /\ ShapeFailure(JoinedEntry(i))
                    /\ JoinedEntry(i).statusCode = None
                    /\ FailedOf(threads[i].request.id) # {}
                    /\ RecordsOf(threads[i].request.id) = {}
    /\ pc = "sink" =>
          \A i \in 1..Len(requests) :
              (log[i].req \in Ids /\ ShapeFailure(log[i])) =>
                  LET id == log[i].req
                  IN  /\ Cardinality(StartsOf(id, 1)) = 1
                      /\ Cardinality(StartsOf(id, 2)) = 1
                      /\ FailedIn(id, 2) => RecordsOf(id) = {} /\ FailedOf(id) # {}
                      /\ AnsweredIn(id, 2) => Cardinality(RecordsOf(id)) = 1 /\ FailedOf(id) = {}

\* C15's case: the normalisation of the payloads of a request's first
\* attempt and of its retry raised, and the block ends without a record.
C15_Witness ==
    /\ pc = "sink"
    /\ Len(log) = 2
    /\ log[1].req = log[2].req
    /\ ShapeFailure(log[1])
    /\ ShapeFailure(log[2])
    /\ responses = <<>>
    /\ Len(failed_requests) = 1

\* C16: if every call returns, a block that is being processed gets to its
\* sink write, after at most two passes and at most two thread starts per
\* request.  The main thread has no step while the thread it joins runs
\* (there is no timeout), and only with no worker running is another chunk
\* or pass begun or the sink written: a worker that never ends keeps its
\* chunk from ending for good.
C16_TerminatesUnlessAWorkerHangs ==
    /\ [](/\ pass \in 0..2
          /\ Len(started) <= 2 * Len(requests)
          /\ (pc = "join" /\ threads[joined + 1].alive) => ~ENABLED MainThread)
    /\ [][(chunk' # chunk \/ pass' # pass \/ sink' # sink \/ conf' # conf) => Alive = {}]_vars
    /\ (pc \in {"start", "join", "chunk_end", "return", "sink"}) ~> (pc = "run")

\* C16's case: a block whose two requests failed in both passes, 2N
\* attempts in all, has been written to the sink.
C16_Witness ==
    /\ pc = "run"
    /\ Len(sink) >= 1
    /\ pass = 2
    /\ Len(requests) = 2
    /\ Len(started) = 2 * Len(requests)

\* The block lists something that is no str or no valid url, or names a
\* strategy that is not allowed.
BlockIsInvalid(configuration) ==
    \/ \E u \in 1..Len(ListedUrls(configuration)) :
           ListedUrls(configuration)[u] \in {NonStr, BadUrl}
    \/ /\ configuration.strategy # None
       /\ configuration.strategy[1] \notin {"desktop", "mobile", "both"}

\* C17: a block with an invalid url (wherever it is listed) or strategy is
\* never dispatched: the main thread is at the block's entry or has raised,
\* the block is not written to the sink, and no step that starts a thread
\* or writes the sink is a step of such a block; an exception is raised at
\* the entry of the block only, in a step that makes no call and no write.
C17_ValidationBeforeDispatch ==
    /\ [](conf <= Len(configurations) /\ BlockIsInvalid(configurations[conf]) =>
             /\ pc \in {"run", "raised"}
             /\ Len(sink) < conf)
    /\ [](pc = "raised" => raised # None /\ Len(sink) = conf - 1)
    /\ [][(calls' # calls \/ sink' # sink \/ threads' # threads) =>
             ~BlockIsInvalid(configurations[conf])]_vars
    /\ [][raised' # raised => pc = "run" /\ calls' = calls /\ sink' = sink]_vars

\* C17's case: the block's last url is the invalid one; the run has ended
\* with the exception and without a call.
C17_Witness ==
    /\ pc = "raised"
    /\ raised = Some("ConfigurationInvalidError")
    /\ ListedUrls(configurations[conf]) = <<"a", BadUrl>>
    /\ calls = 0
    /\ sink = <<>>

\* How many requests of the running pass are joined, and how long log and
\* responses were when the pass began.
PassDone == (chunk - 1) * MAX_PARALLEL_REQUESTS + joined
LogBase == IF pass = 1 THEN 0 ELSE Len(requests)
RecordBase == IF pass = 1 THEN 0 ELSE Len(requests) - Len(pass_requests)

\* C18: whatever the order in which the workers of a chunk end, the chunks
\* are the request list of the pass cut in order into pieces of
\* MAX_PARALLEL_REQUESTS (a last one may be shorter), the threads of a chunk
\* are its requests in order, the i-th log entry of the pass is that of the
\* i-th request of the pass, and the failed list and the records of the pass
\* are the failed and the answered requests of the pass in request order.
C18_OrderIsRequestOrder ==
    InBlock =>
        LET chunks == requests_chunks(pass_requests)
            done == SubSeq(pass_requests, 1, PassDone)
        IN  /\ Concat(chunks) = pass_requests
            /\ \A k \in 1..Len(chunks) :
                  /\ Len(chunks[k]) \in 1..MAX_PARALLEL_REQUESTS
                  /\ k < Len(chunks) => Len(chunks[k]) = MAX_PARALLEL_REQUESTS
            /\ \A i \in 1..Len(threads) :
                  threads[i].request =
                      pass_requests[(chunk - 1) * MAX_PARALLEL_REQUESTS + i]
            /\ Len(log) = LogBase + PassDone
            /\ \A i \in 1..PassDone : log[LogBase + i].req = pass_requests[i].id
            /\ failed_requests = SelectSeq(done, LAMBDA r : FailedIn(r.id, pass))
            /\ [k \in 1..(Len(responses) - RecordBase) |-> responses[RecordBase + k].req]
                  = LET answered_requests ==
                            SelectSeq(done, LAMBDA r : AnsweredIn(r.id, pass))
                    IN  [k \in 1..Len(answered_requests) |-> answered_requests[k].id]

\* C18's case: an outcome is merged and the next thread to join still runs
\* while a thread started after it has ended.
C18_Witness ==
    /\ pc = "join"
    /\ joined >= 1
    /\ threads[joined + 1].alive
    /\ \E i \in (joined + 2)..Len(threads) : ~threads[i].alive

\* Whether every element of sequence s is an element of sequence t.
AllIn(s, t) ==
    LET elements == {t[j] : j \in 1..Len(t)}
    IN  \A i \in 1..Len(s) : s[i] \in elements
\* The records or log entries es are of requests of block b.
OfBlock(es, b) ==
    LET listed == ListedUrls(configurations[b])
        urls == {listed[u] : u \in 1..Len(listed)}
        clusters == {configurations[b].cluster[c][1] :
                        c \in 1..Len(configurations[b].cluster)}
    IN  \A i \in 1..Len(es) : es[i].url \in urls /\ es[i].cluster \in clusters

\* C19: the requests of a block carry the block's own apiKey, or the
\* module's if it has none, whatever the blocks before it set; a block
\* begins with responses, log and failed_requests empty and with its own
\* requests only; the retry pass runs over requests of the block, and what
\* is written to the sink for a block are records and log entries of that
\* block's requests.
C19_BlocksAreIsolated ==
    /\ [](InBlock =>
             /\ \A i \in 1..Len(requests) :
                   requests[i].api_key =
                       IF configurations[conf].apiKey = None THEN ModuleApiKey
                       ELSE configurations[conf].apiKey[1]
             /\ OfBlock(requests, conf)
             /\ AllIn(pass_requests, requests)
             /\ AllIn(failed_requests, requests)
             /\ OfBlock(responses, conf)
             /\ OfBlock(log, conf)
             /\ Len(responses) <= Len(requests)
             /\ Len(log) <= 2 * Len(requests))
    /\ [](\A w \in 1..Len(sink) :
             /\ sink[w].block = w
             /\ OfBlock(sink[w].records, w)
             /\ sink[w].log # None => OfBlock(sink[w].log[1], w))
    /\ [][(pc = "run" /\ pc' \notin {"run", "raised", "done"}) =>
             /\ responses' = <<>>
             /\ log' = <<>>
             /\ failed_requests' = <<>>
             /\ pass' = 1
             /\ pass_requests' = requests']_vars

\* C19's case: after a first block with an apiKey of its own, a second
\* block without one has been fetched with the module's key and written.
C19_Witness ==
    /\ pc = "run"
    /\ Len(sink) = 2
    /\ configurations[1].apiKey = Some("K1")
    /\ configurations[2].apiKey = None
    /\ configurations[1].cluster[1][2] # configurations[2].cluster[1][2]
    /\ requests[1].api_key = ModuleApiKey
    /\ sink[1].records # <<>>
    /\ sink[2].records # <<>>
    /\ Len(sink[2].log[1]) = 2

\* C20: a loadingExperience that is filled in has the fcp and fid
\* percentiles of the payload's originLoadingExperience (those the record's
\* originLoadingExperience has), the cls and lcp percentiles of the
\* payload's loadingExperience, and as Good, Medium and Bad of each of the
\* four metrics the proportions of distributions 0, 1 and 2 of that metric
\* in the payload's loadingExperience.
C20_FieldPercentilesFromOrigin ==
    \A i \in Produced :
        threads[i].result[1].loadingExperience # None =>
            LET response == threads[i].response[1]
                data == threads[i].result[1]
                field == data.loadingExperience[1]
                origin == response.originLoadingExperience[1].metrics[1]
                own == response.loadingExperience[1].metrics[1]
                cls == own["CUMULATIVE_LAYOUT_SHIFT_SCORE"]
                lcp == own["LARGEST_CONTENTFUL_PAINT_MS"]
                fcp == own["FIRST_CONTENTFUL_PAINT_MS"]
                fid == own["FIRST_INPUT_DELAY_MS"]
                proportions(metric) ==
                    <<metric.distributions[1].proportion,
                      metric.distributions[2].proportion,
                      metric.distributions[3].proportion>>
            IN  /\ field.fcp = origin["FIRST_CONTENTFUL_PAINT_MS"].percentile
                /\ field.fid = origin["FIRST_INPUT_DELAY_MS"].percentile
                /\ field.fcp = data.originLoadingExperience.fcp
                /\ field.fid = data.originLoadingExperience.fid
                /\ field.cls = cls.percentile
                /\ field.lcp = lcp.percentile
                /\ <<field.clsGood, field.clsMedium, field.clsBad>> = proportions(cls)
                /\ <<field.lcpGood, field.lcpMedium, field.lcpBad>> = proportions(lcp)
                /\ <<field.fcpGood, field.fcpMedium, field.fcpBad>> = proportions(fcp)
                /\ <<field.fidGood, field.fidMedium, field.fidBad>> = proportions(fid)

\* C20's case: a record with loadingExperience filled in from a payload
\* whose two sections differ in every value.
C20_Witness ==
    \E i \in Produced :
        /\ threads[i].result[1].loadingExperience # None
        /\ threads[i].response[1].originLoadingExperience = Some(Section(100, None))
        /\ threads[i].response[1].loadingExperience = Some(Section(200, Some(FALSE)))
        /\ threads[i].result[1].loadingExperience[1].fcp = 130
        /\ threads[i].result[1].loadingExperience[1].fcpGood = 231

====
